---- MODULE Spec2Model ----
(***************************************************************************)
(* InfiniteScroller (ui_library/src/components/scroller/                   *)
(* InfiniteScroller.tsx): a React component that clones its items, starts  *)
(* one GSAP tween on the wrapper, pauses it on hover and clears the cloned *)
(* list on window resize.  The file holds two variants of the component;   *)
(* `variant` selects the one an instance runs (1: lines 50-212,            *)
(* 2: lines 235-370).                                                      *)
(*                                                                         *)
(* An item is represented by its rendered offsetWidth.  A render, the      *)
(* layout effect inside its commit and the synchronous re-render a         *)
(* setState in the layout effect causes are one step; the passive effects  *)
(* of the last commit are deferred (`pending`) and are flushed by their    *)
(* own step or at the start of the next render, as React does.             *)
(***************************************************************************)
EXTENDS Integers, Sequences, FiniteSets, TLC

\* ---------------------------------------------------------------- bounds
MaxTweens == 2          \* tween slots of the animation engine
MaxTimers == 2          \* pending setTimeout tasks kept track of
FramesPerLoop == 2      \* animation frames sampled per loop of a tween
MaxGap == 1             \* gap prop ranges over 0..MaxGap
MaxContainerWidth == 3  \* widest container
MaxEvents == 2          \* events of the environment in one run

ItemLists == {<< >>, <<0>>, <<1>>, <<2, 1>>}
Gaps == 0..MaxGap
Speeds == {1, 2}
Directions == {"left", "right"}
Widths == {1, MaxContainerWidth}
Variants == {1, 2}

VARIABLES
    variant,        \* which variant of the component the instance runs
    lifecycle,      \* "new", "mounted", "unmounted"
    items, gap, speed, direction, pauseOnHover,   \* props of the last render
    clonedItems,    \* useState: the rendered list
    clonedIsItems,  \* the state array is the very array passed as items
    tweenRef,       \* tweenRef.current: a tween slot, or 0 for null
    tweens,         \* the engine's tweens, by slot
    wrapperX,       \* the wrapper's translated offset (transform x)
    hoverAttached,  \* mouseenter/mouseleave listeners are on the container
    resizeAttached, \* the resize listener is on window
    pointerInside,  \* the pointer is over the container
    containerWidth, \* containerRef.current.offsetWidth
    timers,         \* pending setTimeout tasks of handleResize
    pending,        \* passive effects scheduled by the last commit
    resizedSince,   \* history: a resize cleared the list, no items/gap change since
    hoverPaused,    \* history: mouseenter paused a tween while pauseOnHover
                    \* was true, no mouseleave since
    events,         \* history: events of the environment so far
    last            \* history: what the last step did

vars == <<variant, lifecycle, items, gap, speed, direction, pauseOnHover,
          clonedItems, clonedIsItems, tweenRef, tweens, wrapperX,
          hoverAttached, resizeAttached, pointerInside, containerWidth,
          timers, pending, resizedSince, hoverPaused, events, last>>

\* ------------------------------------------------------------ arithmetic
Abs(n) == IF n < 0 THEN -n ELSE n
Min(a, b) == IF a < b THEN a ELSE b
Max(a, b) == IF a > b THEN a ELSE b
\* Math.ceil(a / b) for a >= 0, b > 0
CeilDiv(a, b) == (a + b - 1) \div b

\* the slot of a killed or never created tween; scrollWidth, containerWidth
\* and direction record what step 2 read when it created the tween
DeadTween == [alive |-> FALSE, paused |-> FALSE, target |-> 0,
              duration |-> <<0, 1>>, from |-> 0, scrollWidth |-> 0,
              containerWidth |-> 0, direction |-> "left"]

\* prev: the tween the step killed last; detached: the step removed the
\* hover listeners
NoStep == [step1 |-> "none", killed |-> FALSE, created |-> FALSE,
           cleared |-> FALSE, resumed |-> FALSE, prev |-> DeadTween,
           detached |-> FALSE]

\* the instance as one record, so that handlers compose
Cur == [lifecycle |-> lifecycle, items |-> items, gap |-> gap, speed |-> speed,
        direction |-> direction, pauseOnHover |-> pauseOnHover,
        clonedItems |-> clonedItems, clonedIsItems |-> clonedIsItems,
        tweenRef |-> tweenRef, tweens |-> tweens, wrapperX |-> wrapperX,
        hoverAttached |-> hoverAttached, resizeAttached |-> resizeAttached,
        pointerInside |-> pointerInside, containerWidth |-> containerWidth,
        timers |-> timers, pending |-> pending, resizedSince |-> resizedSince,
        hoverPaused |-> hoverPaused, last |-> last, ok |-> TRUE]

Begin == [Cur EXCEPT !.last = NoStep]

\* an event of the environment: a prop change, a pointer or resize event, unmount
Event == events < MaxEvents /\ events' = events + 1
Internal == events' = events

Commit(r) ==
    /\ r.ok
    /\ variant' = variant
    /\ lifecycle' = r.lifecycle
    /\ items' = r.items
    /\ gap' = r.gap
    /\ speed' = r.speed
    /\ direction' = r.direction
    /\ pauseOnHover' = r.pauseOnHover
    /\ clonedItems' = r.clonedItems
    /\ clonedIsItems' = r.clonedIsItems
    /\ tweenRef' = r.tweenRef
    /\ tweens' = r.tweens
    /\ wrapperX' = r.wrapperX
    /\ hoverAttached' = r.hoverAttached
    /\ resizeAttached' = r.resizeAttached
    /\ pointerInside' = r.pointerInside
    /\ containerWidth' = r.containerWidth
    /\ timers' = r.timers
    /\ pending' = r.pending
    /\ resizedSince' = r.resizedSince
    /\ hoverPaused' = r.hoverPaused
    /\ last' = r.last

\* ------------------------------------------------------------ DOM measures
RECURSIVE SumWidths(_)
SumWidths(list) ==
    IF list = << >> THEN 0 ELSE Head(list) + SumWidths(Tail(list))

\* children widths plus the gap after every child but the last
ListWidth(list, g) ==
    IF list = << >> THEN 0 ELSE SumWidths(list) + g * (Len(list) - 1)

\* wrapper.scrollWidth: the inline-flex wrapper laid out with the gap style
scrollWidth(s) == ListWidth(s.clonedItems, s.gap)

\* Array.from({ length: n }, () => list).flat()
RECURSIVE Repeat(_, _)
Repeat(list, n) == IF n <= 0 THEN << >> ELSE list \o Repeat(list, n - 1)

\* containerRef.current && wrapperRef.current
RefsSet(s) == s.lifecycle = "mounted"

\* ------------------------------------------------------------ the engine
AliveTweens(tw) == {i \in 1..MaxTweens : tw[i].alive}
FreeSlots(s) == {i \in 1..MaxTweens : ~s.tweens[i].alive}

\* tween.kill()
kill(s, i) == [s EXCEPT !.tweens[i] = DeadTween, !.last.killed = TRUE,
                        !.last.prev = s.tweens[i]]

\* gsap.to(wrapper, { x: distance, duration, ease: "linear", repeat: -1 })
gsapTo(s, distance, duration, measured) ==
    IF FreeSlots(s) = {} THEN [s EXCEPT !.ok = FALSE]
    ELSE LET i == CHOOSE j \in FreeSlots(s) : \A k \in FreeSlots(s) : j <= k
         IN [s EXCEPT !.tweens[i] = [alive |-> TRUE, paused |-> FALSE,
                                     target |-> distance, duration |-> duration,
                                     from |-> s.wrapperX,
                                     scrollWidth |-> measured,
                                     containerWidth |-> s.containerWidth,
                                     direction |-> s.direction],
                      !.tweenRef = i,
                      !.last.created = TRUE]

\* ------------------------------------------------------------ step 2
\* if (tweenRef.current) { kill(); tweenRef.current = null }   (variant 1)
\* if (tweenRef.current) tweenRef.current.kill();               (variant 2)
\* the handle is dropped and its tween left running
killHeldLeak(s) == [s EXCEPT !.tweenRef = 0]

killHeld(s) ==
    IF s.tweenRef = 0 THEN s ELSE [kill(s, s.tweenRef) EXCEPT !.tweenRef = 0]

\* the distance with the direction prop ignored
distanceOfOneWay(s) ==
    LET totalWidth == scrollWidth(s)
    IN IF variant = 1 THEN -totalWidth ELSE -(totalWidth - s.containerWidth)

distanceOf(s) ==
    LET totalWidth == scrollWidth(s)
    IN IF variant = 1
       THEN (IF s.direction = "left" THEN -totalWidth ELSE totalWidth)
       ELSE (IF s.direction = "left"
             THEN -(totalWidth - s.containerWidth)
             ELSE totalWidth - s.containerWidth)

\* Math.abs(distance) / speed, kept as a fraction <<numerator, denominator>>
durationOf(s) == <<Abs(distanceOf(s)), s.speed>>

\* step 2 without its empty-list guard
step2NoGuard(s) ==
    IF ~RefsSet(s) THEN s
    ELSE gsapTo(killHeld(s), distanceOf(s), durationOf(s), scrollWidth(s))

step2(s) ==
    IF ~RefsSet(s) \/ Len(s.clonedItems) = 0 THEN s
    ELSE gsapTo(killHeld(s), distanceOf(s), durationOf(s), scrollWidth(s))

\* ------------------------------------------------------------ step 3
handleMouseEnter(s) ==
    IF s.tweenRef # 0
    THEN [s EXCEPT !.tweens[s.tweenRef].paused = TRUE,
                   !.hoverPaused = s.pauseOnHover]
    ELSE s

\* a resume that restarts the loop from its start value
handleMouseLeaveRestart(s) ==
    IF s.tweenRef # 0
    THEN [s EXCEPT !.tweens[s.tweenRef].paused = FALSE,
                   !.wrapperX = s.tweens[s.tweenRef].from,
                   !.last.resumed = TRUE]
    ELSE s

handleMouseLeave(s) ==
    IF s.tweenRef # 0
    THEN [s EXCEPT !.tweens[s.tweenRef].paused = FALSE, !.last.resumed = TRUE]
    ELSE s

\* step 3 whose previous run returned no cleanup
step3NoCleanup(s) ==
    IF ~s.pauseOnHover \/ ~RefsSet(s) THEN s
    ELSE [s EXCEPT !.hoverAttached = TRUE]

\* the cleanup of the previous run, then the effect body
step3(s) ==
    LET cleaned == [s EXCEPT !.hoverAttached = FALSE,
                             !.last.detached = @ \/ s.hoverAttached]
    IN IF ~s.pauseOnHover \/ ~RefsSet(s) THEN cleaned
       ELSE [cleaned EXCEPT !.hoverAttached = TRUE]

\* ------------------------------------------------------------ step 4
step4(s) == [s EXCEPT !.resizeAttached = TRUE]

\* the passive effects of the last commit, in declaration order
FlushPassive(s) ==
    LET a == IF "anim" \in s.pending THEN step2(s) ELSE s
        b == IF "hover" \in s.pending THEN step3(a) ELSE a
        c == IF "resize" \in s.pending THEN step4(b) ELSE b
    IN [c EXCEPT !.pending = {}]

\* setClonedItems(list): a re-render with the new state; React bails out when
\* the value is the array already held, and ignores an unmounted component
setClonedItems(s, list, isItems) ==
    IF s.lifecycle # "mounted" THEN s
    ELSE IF isItems /\ s.clonedIsItems THEN s
    ELSE [FlushPassive(s) EXCEPT !.clonedItems = list,
                                 !.clonedIsItems = isItems,
                                 !.pending = {"anim"}]

\* ------------------------------------------------------------ step 1
cloneCount(cw, totalWidth) == CeilDiv(cw, totalWidth) + 2

step1ClonesChildren(s) ==
    IF ~RefsSet(s) THEN s
    ELSE LET k == killHeld(s)
             itemsArray == k.clonedItems
             totalWidth == ListWidth(itemsArray, k.gap)
         IN IF totalWidth <= 0 \/ Len(itemsArray) = 0
            THEN setClonedItems([k EXCEPT !.last.step1 = "skip"], k.items, TRUE)
            ELSE setClonedItems([k EXCEPT !.last.step1 = "clone"],
                                Repeat(itemsArray, cloneCount(k.containerWidth, totalWidth)),
                                FALSE)

step1(s) ==
    IF ~RefsSet(s) THEN s
    ELSE LET k == killHeld(s)
             itemsArray == k.clonedItems
             totalWidth == ListWidth(itemsArray, k.gap)
         IN IF totalWidth <= 0 \/ Len(itemsArray) = 0
            THEN setClonedItems([k EXCEPT !.last.step1 = "skip"], k.items, TRUE)
            ELSE setClonedItems([k EXCEPT !.last.step1 = "clone"],
                                Repeat(k.items, cloneCount(k.containerWidth, totalWidth)),
                                FALSE)

\* a render of the component with props p; newItems: items is a new array
render(s, p, newItems) ==
    LET f == FlushPassive(s)
        deps1 == newItems \/ p.gap # f.gap
        effects == (IF p.speed # f.speed \/ p.direction # f.direction
                    THEN {"anim"} ELSE {})
                   \cup (IF p.pauseOnHover # f.pauseOnHover THEN {"hover"} ELSE {})
        c == [f EXCEPT !.items = p.items, !.gap = p.gap, !.speed = p.speed,
                       !.direction = p.direction,
                       !.pauseOnHover = p.pauseOnHover,
                       !.clonedIsItems = IF newItems THEN FALSE ELSE @,
                       !.resizedSince = IF deps1 THEN FALSE ELSE @,
                       !.pending = effects]
    IN IF deps1 THEN step1(c) ELSE c

Props(s) == [items |-> s.items, gap |-> s.gap, speed |-> s.speed,
             direction |-> s.direction, pauseOnHover |-> s.pauseOnHover]

\* ------------------------------------------------------------ actions
Init ==
    /\ variant \in Variants
    /\ lifecycle = "new"
    /\ items \in ItemLists
    /\ gap \in Gaps
    /\ speed \in Speeds
    /\ direction \in Directions
    /\ pauseOnHover \in BOOLEAN
    /\ clonedItems = << >>
    /\ clonedIsItems = FALSE
    /\ tweenRef = 0
    /\ tweens = [i \in 1..MaxTweens |-> DeadTween]
    /\ wrapperX = 0
    /\ hoverAttached = FALSE
    /\ resizeAttached = FALSE
    /\ pointerInside = FALSE
    /\ containerWidth \in Widths
    /\ timers = 0
    /\ pending = {}
    /\ resizedSince = FALSE
    /\ hoverPaused = FALSE
    /\ events = 0
    /\ last = NoStep

\* first render (clonedItems = []), its layout effect and the re-render
Mount ==
    /\ lifecycle = "new"
    /\ Internal
    /\ Commit(step1([Begin EXCEPT !.lifecycle = "mounted",
                                           !.pending = {"anim", "hover", "resize"}]))

SetItems(its) ==
    /\ lifecycle = "mounted"
    /\ Event
    /\ Commit(render(Begin, [Props(Cur) EXCEPT !.items = its], TRUE))

SetGap(g) ==
    /\ lifecycle = "mounted"
    /\ Event
    /\ g # gap
    /\ Commit(render(Begin, [Props(Cur) EXCEPT !.gap = g], FALSE))

SetSpeed(sp) ==
    /\ lifecycle = "mounted"
    /\ Event
    /\ sp # speed
    /\ Commit(render(Begin, [Props(Cur) EXCEPT !.speed = sp], FALSE))

SetDirection(d) ==
    /\ lifecycle = "mounted"
    /\ Event
    /\ d # direction
    /\ Commit(render(Begin, [Props(Cur) EXCEPT !.direction = d], FALSE))

SetPauseOnHover(b) ==
    /\ lifecycle = "mounted"
    /\ Event
    /\ b # pauseOnHover
    /\ Commit(render(Begin, [Props(Cur) EXCEPT !.pauseOnHover = b], FALSE))

\* the deferred passive effects run
Flush ==
    /\ pending # {}
    /\ Internal
    /\ Commit(FlushPassive(Begin))

MouseEnter ==
    /\ lifecycle # "new"
    /\ ~pointerInside
    /\ Event
    /\ LET s == [Begin EXCEPT !.pointerInside = TRUE]
       IN Commit(IF s.hoverAttached THEN handleMouseEnter(s) ELSE s)

MouseLeave ==
    /\ pointerInside
    /\ Event
    /\ LET s == [Begin EXCEPT !.pointerInside = FALSE, !.hoverPaused = FALSE]
       IN Commit(IF s.hoverAttached THEN handleMouseLeave(s) ELSE s)

\* variant 1: setClonedItems([]) and an uncancelled setTimeout(..., 50)
\* variant 2: debounce(() => setClonedItems([]), 100)
handleResize(s) ==
    IF variant = 1
    THEN IF s.timers >= MaxTimers THEN [s EXCEPT !.ok = FALSE]
         ELSE [setClonedItems(s, << >>, FALSE) EXCEPT
                   !.timers = s.timers + 1,
                   !.last.cleared = TRUE,
                   !.resizedSince = TRUE]
    ELSE [s EXCEPT !.timers = 1]

\* a window resize event; the container is as wide as the window
Resize(w) ==
    /\ lifecycle # "new"
    /\ Event
    /\ LET s == [Begin EXCEPT !.containerWidth = w]
       IN Commit(IF s.resizeAttached THEN handleResize(s) ELSE s)

\* a setTimeout task of handleResize comes due
\* variant 1: dispatches "resize-trigger" on the container, which has no listener
\* variant 2: the debounced () => setClonedItems([])
Timeout ==
    /\ timers > 0
    /\ Internal
    /\ LET s == [Begin EXCEPT !.timers = timers - 1]
       IN Commit(IF variant = 1 THEN s
                 ELSE IF s.lifecycle = "mounted"
                      THEN [setClonedItems(s, << >>, FALSE) EXCEPT
                                !.last.cleared = TRUE, !.resizedSince = TRUE]
                      ELSE s)

\* unmount: the cleanups of steps 3 and 4 (steps 1 and 2 return none)
unmount(s) ==
    [FlushPassive(s) EXCEPT !.hoverAttached = FALSE,
                            !.last.detached = @ \/ FlushPassive(s).hoverAttached,
                            !.resizeAttached = FALSE,
                            !.lifecycle = "unmounted"]

Unmount ==
    /\ lifecycle = "mounted"
    /\ Event
    /\ Commit(unmount(Begin))

\* one animation frame of the running tween i (linear, repeat: -1)
frame(s, i) ==
    LET t == s.tweens[i]
        stride == Max(1, CeilDiv(Abs(t.target - t.from), FramesPerLoop))
        left == Abs(t.target - s.wrapperX)
    IN IF s.wrapperX = t.target THEN [s EXCEPT !.wrapperX = t.from]
       ELSE IF t.target > s.wrapperX
            THEN [s EXCEPT !.wrapperX = s.wrapperX + Min(stride, left)]
            ELSE [s EXCEPT !.wrapperX = s.wrapperX - Min(stride, left)]

Tick(i) ==
    /\ tweens[i].alive
    /\ ~tweens[i].paused
    /\ tweens[i].target # tweens[i].from
    /\ Internal
    /\ Commit(frame(Begin, i))

Next ==
    \/ Mount
    \/ \E its \in ItemLists : SetItems(its)
    \/ \E g \in Gaps : SetGap(g)
    \/ \E sp \in Speeds : SetSpeed(sp)
    \/ \E d \in Directions : SetDirection(d)
    \/ \E b \in BOOLEAN : SetPauseOnHover(b)
    \/ Flush
    \/ MouseEnter
    \/ MouseLeave
    \/ \E w \in Widths : Resize(w)
    \/ Timeout
    \/ Unmount
    \/ \E i \in 1..MaxTweens : Tick(i)

Spec == Init /\ [][Next]_vars

TypeOK ==
    /\ variant \in Variants
    /\ lifecycle \in {"new", "mounted", "unmounted"}
    /\ tweenRef \in 0..MaxTweens
    /\ timers \in 0..MaxTimers
    /\ pending \subseteq {"anim", "hover", "resize"}

\* ------------------------------------------------------------ properties
Alive == AliveTweens(tweens)

\* all effects have run and no delayed resize task is pending
Settled == lifecycle = "mounted" /\ pending = {} /\ timers = 0

\* C1: at most one tween created by the instance is alive, and it is the one
\* held in tweenRef: every creation first kills the tween held in the handle.
C1_AtMostOneTween ==
    /\ Cardinality(Alive) <= 1
    /\ \A i \in Alive : tweenRef = i

\* a step that killed the held tween and created its successor
C1_Witness == last.killed /\ last.created /\ Cardinality(Alive) = 1

\* C2: in every settled state with non-empty items of positive single-copy
\* width, the rendered list is at least twice as wide as the container.
C2_TwiceContainer ==
    (Settled /\ items # << >> /\ ListWidth(items, gap) > 0)
        => ListWidth(clonedItems, gap) >= 2 * containerWidth

\* C3: while pauseOnHover is true and the pointer is over the container (a
\* pointer-enter has paused the tween and no pointer-leave has come since), no
\* alive tween runs unpaused (so the offset, which only a running tween moves,
\* is frozen), whatever other events occur in between.  Stated for items of
\* positive width.
C3_FrozenWhileHovered ==
    (/\ lifecycle = "mounted" /\ pauseOnHover /\ pointerInside /\ hoverPaused
     /\ ListWidth(items, gap) > 0)
        => \A i \in Alive : tweens[i].paused

\* C4: once a resize has cleared the list and everything it scheduled has run,
\* with items non-empty (and of positive width) and no items or gap change
\* since, the rendered list is
\* non-empty again and a tween is alive.  A settled state has no step of the
\* component left to take, so a settled state that is still empty stays so.
C4_ResizeRebuilds ==
    (Settled /\ resizedSince /\ items # << >> /\ ListWidth(items, gap) > 0)
        => (clonedItems # << >> /\ Alive # {})

\* C5: at most one delayed resize task is pending, and the list is cleared
\* only by the delayed task that follows the last event of a burst (so when a
\* step clears the list no delayed task is left pending), not by each event.
C5_OneCyclePerBurst ==
    /\ timers <= 1
    /\ last.cleared => timers = 0

\* C6: after unmount no tween created by the instance is alive (stated for
\* the tweens that translate a list of positive width).
C6_UnmountKillsTween ==
    lifecycle = "unmounted" => \A i \in Alive : tweens[i].scrollWidth = 0

\* C7: after unmount no pointer or resize listener is attached and no delayed
\* resize task is pending.
C7_UnmountDetaches ==
    lifecycle = "unmounted"
        => (~hoverAttached /\ ~resizeAttached /\ timers = 0)

\* C8: while items is empty the rendered list is empty and no tween is alive
\* or held, at mount and after a change from non-empty items.
C8_EmptyItems ==
    (lifecycle = "mounted" /\ items = << >>)
        => (clonedItems = << >> /\ Alive = {} /\ tweenRef = 0)

\* items became empty in a step that cancelled the running tween
C8_Witness == lifecycle = "mounted" /\ items = << >> /\ last.killed

\* C9: every tween has |target| = scrollWidth measured at its creation and a
\* duration d with d * speed = scrollWidth (d is the fraction
\* duration[1] / duration[2] and duration[2] the speed it was created with).
\* Stated for the tweens that measured a positive scrollWidth.
C9_DurationExact ==
    \A i \in Alive :
        tweens[i].scrollWidth > 0 =>
        /\ Abs(tweens[i].target) = tweens[i].scrollWidth
        /\ tweens[i].duration[1] = tweens[i].scrollWidth

\* C10: when step 1 clones, the rendered list is ceil(containerWidth /
\* totalWidth) + 2 copies of items, totalWidth being the width of one
\* unrepeated copy of the current items laid out with the current gap.
C10_CloneCount ==
    (last.step1 = "clone" /\ items # << >> /\ ListWidth(items, gap) > 0)
        => clonedItems
             = Repeat(items, cloneCount(containerWidth, ListWidth(items, gap)))

\* C11: with pauseOnHover true, its listeners attached and a tween held, a
\* pointer-enter pauses that tween and a pointer-leave resumes it; neither
\* event moves the offset, replaces the tween or changes its target, duration
\* or start value, and while the held tween stays paused no step moves the
\* offset, so the resume starts from the offset of the pause.
C11_OnEnter ==
    (~pointerInside /\ pointerInside' /\ pauseOnHover /\ hoverAttached /\ tweenRef # 0)
        => /\ tweenRef' = tweenRef
           /\ wrapperX' = wrapperX
           /\ tweens' = [tweens EXCEPT ![tweenRef].paused = TRUE]

C11_OnLeave ==
    (pointerInside /\ ~pointerInside' /\ pauseOnHover /\ hoverAttached /\ tweenRef # 0)
        => /\ tweenRef' = tweenRef
           /\ wrapperX' = wrapperX
           /\ tweens' = [tweens EXCEPT ![tweenRef].paused = FALSE]

C11_WhilePaused ==
    (/\ tweenRef # 0 /\ tweens[tweenRef].paused
     /\ tweenRef' = tweenRef /\ tweens'[tweenRef] = tweens[tweenRef])
        => wrapperX' = wrapperX

Held == tweens[tweenRef]

\* C12: for the same scroll width, container width and speed the distance for
\* direction right is the negation of the distance for left, with the same
\* duration; and when step 2 replaces a tween created for left by one created
\* for right from the same measures, the new target is the negation of the old
\* one, the duration is unchanged and only the new tween is alive.
C12_DirectionReverses ==
    /\ distanceOf([Cur EXCEPT !.direction = "right"])
         = -distanceOf([Cur EXCEPT !.direction = "left"])
    /\ durationOf([Cur EXCEPT !.direction = "right"])
         = durationOf([Cur EXCEPT !.direction = "left"])
    /\ (/\ last.created /\ last.prev.alive /\ tweenRef # 0
        /\ last.prev.direction = "left" /\ Held.direction = "right"
        /\ last.prev.scrollWidth = Held.scrollWidth
        /\ last.prev.containerWidth = Held.containerWidth
        /\ last.prev.duration[2] = Held.duration[2])
          => /\ Held.target = -last.prev.target
             /\ Held.duration = last.prev.duration
             /\ Alive = {tweenRef}

\* step 2 has replaced a tween for left by one for right, same measures
C12_Witness ==
    /\ last.created /\ last.prev.alive /\ tweenRef # 0
    /\ last.prev.direction = "left" /\ Held.direction = "right"
    /\ last.prev.scrollWidth = Held.scrollWidth
    /\ last.prev.containerWidth = Held.containerWidth
    /\ last.prev.duration[2] = Held.duration[2]
    /\ Held.target > 0

\* C13: while the rendered list is the one the skip-cloning branch of step 1
\* stored (the state holds the items array itself), the render is static: the
\* list is one unrepeated copy of items and no tween is alive.
C13_StaticWhenUnmeasured ==
    (lifecycle = "mounted" /\ clonedIsItems)
        => (clonedItems = items /\ Alive = {})

\* C14 as stated: in every state the hover listeners are attached exactly
\* when the component is mounted and pauseOnHover is true, and a pointer-enter
\* while pauseOnHover is false leaves every tween as it was.
C14_AttachedIffPauseOnHover ==
    [][/\ hoverAttached' <=> (lifecycle' = "mounted" /\ pauseOnHover')
       /\ (~pointerInside /\ pointerInside' /\ ~pauseOnHover) => tweens' = tweens]_vars

\* C14 amended: the same, in the states in which step 3 is not waiting to run
\* (the effect of the render that changed pauseOnHover has been flushed).
C14_AttachedOnceFlushed ==
    [][/\ "hover" \notin pending'
            => (hoverAttached' <=> (lifecycle' = "mounted" /\ pauseOnHover'))
       /\ (~pointerInside /\ pointerInside' /\ ~pauseOnHover /\ "hover" \notin pending)
            => tweens' = tweens]_vars

\* pauseOnHover became false and step 3 has removed the listeners
C14_Witness ==
    /\ last.detached /\ lifecycle = "mounted"
    /\ ~pauseOnHover /\ ~hoverAttached /\ "hover" \notin pending

\* C15: an alive tween is paused only while pauseOnHover is true and the
\* pointer is over the container (stated for the states in which step 3 is
\* not waiting to run, and for a pause made while pauseOnHover was true).
C15_PausedOnlyWhileHovered ==
    (lifecycle = "mounted" /\ "hover" \notin pending /\ hoverPaused)
        => \A i \in Alive : tweens[i].paused => (pauseOnHover /\ pointerInside)

\* C16: every tween translates the wrapper from the origin: the offset its
\* loop starts (and restarts) from is 0.
C16_StartsFromOrigin == \A i \in Alive : tweens[i].from = 0

\* C17: the direction a tween was created for fixes the sign of its target:
\* left gives a target <= 0, right a target >= 0 (wrappers of positive width).
C17_DirectionFixesSign ==
    \A i \in Alive : tweens[i].scrollWidth > 0 =>
        /\ tweens[i].direction = "left" => tweens[i].target <= 0
        /\ tweens[i].direction = "right" => tweens[i].target >= 0

\* C18: in every settled state the rendered list is k whole copies of the
\* current items prop for some k >= 0.
C18_WholeCopies ==
    Settled => \E k \in 0..Len(clonedItems) : clonedItems = Repeat(items, k)

\* a settled state after step 1 re-measured a rendered list and cloned a
\* two-item prop at least twice (the mount renders one copy only)
C18_Witness ==
    /\ Settled
    /\ Len(items) = 2
    /\ Len(clonedItems) >= 4
    /\ \E k \in 2..Len(clonedItems) : clonedItems = Repeat(items, k)

\* C19: in every settled state whose rendered list is empty no tween is
\* alive. Stated for the tweens that measured a positive scrollWidth.
C19_EmptyStripIsStill ==
    (Settled /\ clonedItems = << >>) =>
        \A i \in Alive : tweens[i].scrollWidth = 0

\* C20: a tween killed by step 1 is restarted whenever the resulting rendered
\* list is non-empty: once every scheduled effect and timer has run, a
\* non-empty rendered list has a live tween.
C20_RestartedOnceSettled ==
    (Settled /\ clonedItems # << >>) => Alive # {}
====
